---- MODULE Spec2Model ----
(***************************************************************************)
(* Order-processing backend of kk-beauty-backend: the HTTP handlers of     *)
(* server.js (src/unnamed/part_000) over a payment gateway and a           *)
(* relational store.  OrderService and the orders schema are not part of   *)
(* the sources; they are modelled from spec.md sections 4.1 and 6.         *)
(* NewsletterService (src/unnamed/part_001) and the shutdown sequence of   *)
(* server.js are modelled from their sources.                              *)
(*                                                                         *)
(* Numbers are fixed-point with two decimals: Num(1250) is 12.50.          *)
(* Strings are sequences of one-character strings.                         *)
(***************************************************************************)
EXTENDS Integers, Sequences, FiniteSets

VARIABLES
  now,        \* Date.now(), milliseconds (low-order part)
  orders,     \* rows of table orders (tx # "none": written, not yet committed)
  orderItems, \* rows of table order_items
  req,        \* payment-success requests: position, body, gateway answer
  resp,       \* payment-success requests: last response sent
  out,        \* last response of the one-statement handlers
  cpi,        \* create-payment-intent request: position and body
  cpiResp,    \* create-payment-intent: last response sent
  gwCalls,    \* number of paymentIntents.create calls made to the gateway
  health,     \* GET /api/health requests: position and the health object
  subs,       \* table newsletter_subscriptions and its id sequence
  nlOut,      \* what the last NewsletterService call returned or threw
  proc        \* the process: listening socket, shutdown calls, pool, exit

vars ==
  <<now, orders, orderItems, req, resp, out, cpi, cpiResp, gwCalls,
    health, subs, nlOut, proc>>

----------------------------------------------------------------------------
(* Bounds *)

MaxTicks == 1
MaxRand == 0
MaxItems == 1
MaxIntentItems == 2
MaxCalls == 2
MaxSerial == 3
MaxSignals == 2
NowStart == 1999999

----------------------------------------------------------------------------
(* JavaScript values *)

Undef == [t |-> "undef", v |-> 0, s |-> <<>>]
NaN == [t |-> "nan", v |-> 0, s |-> <<>>]
Num(n) == [t |-> "num", v |-> n, s |-> <<>>]
Str(chars) == [t |-> "str", v |-> 0, s |-> chars]

Digits == {"0", "1", "2", "3", "4", "5", "6", "7", "8", "9"}

DigitVal(c) ==
  CASE c = "0" -> 0 [] c = "1" -> 1 [] c = "2" -> 2 [] c = "3" -> 3
    [] c = "4" -> 4 [] c = "5" -> 5 [] c = "6" -> 6 [] c = "7" -> 7
    [] c = "8" -> 8 [] c = "9" -> 9

RECURSIVE DigitRun(_, _)
DigitRun(s, i) ==
  IF i <= Len(s) /\ s[i] \in Digits THEN 1 + DigitRun(s, i + 1) ELSE 0

RECURSIVE DigitsValue(_, _, _)
DigitsValue(s, i, n) ==
  IF n = 0 THEN 0 ELSE DigitsValue(s, i, n - 1) * 10 + DigitVal(s[i + n - 1])

\* String.prototype.replace(c, ''): removes the first occurrence only
RECURSIVE ReplaceFirst(_, _)
ReplaceFirst(s, c) ==
  IF s = <<>> THEN <<>>
  ELSE IF Head(s) = c THEN Tail(s)
  ELSE <<Head(s)>> \o ReplaceFirst(Tail(s), c)

\* parseFloat on a string: the longest decimal prefix, NaN when there is none
ParseFloatStr(s) ==
  LET signed == Len(s) >= 1 /\ s[1] \in {"-", "+"}
      neg == Len(s) >= 1 /\ s[1] = "-"
      i0 == IF signed THEN 2 ELSE 1
      ni == DigitRun(s, i0)
      hasDot == i0 + ni <= Len(s) /\ s[i0 + ni] = "."
      nf == IF hasDot THEN DigitRun(s, i0 + ni + 1) ELSE 0
      f1 == IF nf >= 1 THEN DigitVal(s[i0 + ni + 1]) * 10 ELSE 0
      f2 == IF nf >= 2 THEN DigitVal(s[i0 + ni + 2]) ELSE 0
      mag == DigitsValue(s, i0, ni) * 100 + f1 + f2
  IN IF ni = 0 /\ nf = 0 THEN NaN ELSE Num(IF neg THEN 0 - mag ELSE mag)

parseFloat(x) ==
  CASE x.t = "num" -> x
    [] x.t = "str" -> ParseFloatStr(x.s)
    [] OTHER -> NaN

\* !x
Falsy(x) ==
  \/ x.t \in {"undef", "nan"}
  \/ x.t = "num" /\ x.v = 0
  \/ x.t = "str" /\ x.s = <<>>

isNaN(x) == x.t # "num"

----------------------------------------------------------------------------
(* Payment gateway (external): the payment intents it holds *)

PIs == {"pi_1", "pi_2", "pi_3"}

\* status field of the object paymentIntents.retrieve returns
GatewayStatus(p) ==
  IF p \in {"pi_1", "pi_2"} THEN "succeeded" ELSE "requires_payment_method"

\* amount the gateway charged for the intent, in cents
GatewayAmount(p) == IF p = "pi_2" THEN 1250 ELSE 5000

----------------------------------------------------------------------------
(* Request bodies of POST /api/payment-success *)

Reqs == {1, 2}

Customer == [defined |-> TRUE, name |-> "Ana", email |-> "ana@example.com"]
NoCustomer == [defined |-> FALSE, name |-> "", email |-> ""]

Lipstick == [name |-> "lipstick", quantity |-> 2, price |-> Str(<<"$", "1", "2", ".", "5">>)]
Serum == [name |-> "serum", quantity |-> 1, price |-> Num(2500)]
Freebie == [name |-> "sample", quantity |-> 1, price |-> Str(<<"$", "0">>)]

Cart == [i \in 1..MaxItems |-> IF i % 2 = 1 THEN Lipstick ELSE Serum]

ItemsOf(list) == [defined |-> TRUE, list |-> list]
NoItems == [defined |-> FALSE, list |-> <<>>]

\* item price normalised: a leading currency symbol stripped, then parsed
NormalizePrice(price) ==
  IF price.t = "str" THEN parseFloat(Str(ReplaceFirst(price.s, "$")))
  ELSE parseFloat(price)

PriceOk(price) == ~isNaN(NormalizePrice(price)) /\ NormalizePrice(price).v > 0

\* createOrder's validation of the items
ValidItems(items) ==
  /\ items.defined
  /\ \A i \in 1..Len(items.list) : PriceOk(items.list[i].price)

PayItems == {ItemsOf(SubSeq(Cart, 1, MaxItems)), ItemsOf(<<Freebie>>), NoItems}

PayTotals == {Num(5000), Str(<<"1", "2", ".", "5">>)}

\* a field the handler never reads on a path takes one value there: nothing
\* but paymentIntentId when the payment has not succeeded, nothing else when
\* customer is absent, no second total when createOrder rejects the items
PayBodies ==
  {b \in [paymentIntentId : PIs, customer : {Customer, NoCustomer},
          items : PayItems, total : PayTotals] :
     /\ ~b.customer.defined => b.items = NoItems /\ b.total = Num(5000)
     /\ ~ValidItems(b.items) => b.total = Num(5000)
     /\ GatewayStatus(b.paymentIntentId) # "succeeded" => ~b.customer.defined}

\* the bodies of well-formed confirmations, one total
OrderBodies ==
  {b \in PayBodies :
     b.total = Num(5000) /\ (b.items.defined \/ b.paymentIntentId = "pi_3")}

NoBody ==
  [paymentIntentId |-> "", customer |-> NoCustomer, items |-> NoItems, total |-> Undef]

----------------------------------------------------------------------------
(* Order ids *)

SliceMod == 1000000

NoId == [fmt |-> "none", stamp |-> 0, rnd |-> 0]

\* `KK-${Date.now().toString().slice(-6)}`
FallbackId(t) == [fmt |-> "KK-dddddd", stamp |-> t % SliceMod, rnd |-> 0]

\* OrderService: a prefixed fragment of the current time plus a random part
GenOrderId(t, rnd) == [fmt |-> "store", stamp |-> t % SliceMod, rnd |-> rnd]

----------------------------------------------------------------------------
(* OrderService.createOrder and the store *)

ValidStatuses == {"processing", "shipped", "delivered", "cancelled"}

\* createOrder's validation of its input
ValidOrderInput(input) == input.customer.defined /\ ValidItems(input.items)

RECURSIVE Subtotal(_)
Subtotal(list) ==
  IF list = <<>> THEN 0
  ELSE NormalizePrice(Head(list).price).v * Head(list).quantity + Subtotal(Tail(list))

OrderRow(input, oid, t, r) ==
  [orderId |-> oid, stripePaymentIntentId |-> input.stripePaymentIntentId,
   subtotal |-> Subtotal(input.items.list), taxAmount |-> 0,
   totalAmount |-> input.total.v, status |-> "processing",
   createdAt |-> t, tx |-> r]

ItemRow(oid, item, k, r) ==
  [orderId |-> oid, seq |-> k, name |-> item.name, quantity |-> item.quantity,
   price |-> NormalizePrice(item.price).v, tx |-> r]

\* rows other transactions can see
Committed(rows) == {x \in rows : x.tx = 0}

UniqueConflict_IdOnly(row, rows) == \E x \in rows : x.orderId = row.orderId

\* unique indexes on orders.order_id and orders.stripe_payment_intent_id
UniqueConflict(row, rows) ==
  \E x \in rows :
    x.orderId = row.orderId \/ x.stripePaymentIntentId = row.stripePaymentIntentId

Rollback_Keeps(rows, r) == {IF x.tx = r THEN [x EXCEPT !.tx = 0] ELSE x : x \in rows}

Rollback(rows, r) == {x \in rows : x.tx # r}

CommitRows(rows, r) == {IF x.tx = r THEN [x EXCEPT !.tx = 0] ELSE x : x \in rows}

----------------------------------------------------------------------------
(* POST /api/payment-success *)

\* out holds what the last step sent or logged: the response of an admin,
\* lookup or health handler, or the error a catch block logged
NoOut ==
  [op |-> "none", code |-> 0, orderId |-> NoId, status |-> "", err |-> "",
   list |-> <<>>, undone |-> 0]

\* console.error in a catch block: the error, and how many rows its rollback
\* had discarded
Logged(err, undone) == [NoOut EXCEPT !.op = "log", !.err = err, !.undone = undone]

NoResp ==
  [code |-> 0, success |-> FALSE, orderId |-> NoId, warning |-> FALSE,
   paymentIntentId |-> "", gw |-> "none"]

IdleReq == [pc |-> "idle", body |-> NoBody, oid |-> NoId, k |-> 0]

IsVerified_Any(status) == TRUE

\* paymentIntent.status === 'succeeded'
IsVerified(status) == status = "succeeded"

CreateOrderInput(b) ==
  [stripePaymentIntentId |-> b.paymentIntentId, customer |-> b.customer,
   items |-> b.items, total |-> parseFloat(b.total)]

DurableResponse(b, row) ==
  [code |-> 200, success |-> TRUE, orderId |-> row.orderId, warning |-> FALSE,
   paymentIntentId |-> b.paymentIntentId, gw |-> "succeeded"]

FallbackResponse_Silent(b, t) ==
  [code |-> 200, success |-> TRUE, orderId |-> FallbackId(t), warning |-> FALSE,
   paymentIntentId |-> b.paymentIntentId, gw |-> "succeeded"]

FallbackResponse(b, t) ==
  [code |-> 200, success |-> TRUE, orderId |-> FallbackId(t), warning |-> TRUE,
   paymentIntentId |-> b.paymentIntentId, gw |-> "succeeded"]

ErrorResponse(code, b, gw) ==
  [code |-> code, success |-> FALSE, orderId |-> NoId, warning |-> FALSE,
   paymentIntentId |-> b.paymentIntentId, gw |-> gw]

Finish(r, response) ==
  /\ req' = [req EXCEPT ![r] = IdleReq]
  /\ resp' = [resp EXCEPT ![r] = response]

Quiet == out' = NoOut
PayUnchanged == UNCHANGED <<now, orders, orderItems, req, resp>>
IntentUnchanged == UNCHANGED <<cpi, cpiResp, gwCalls>>
OpsUnchanged == UNCHANGED <<health, subs, nlOut, proc>>

\* the request arrives; the handler calls paymentIntents.retrieve and awaits
PS_Receive(r, b) ==
  /\ req[r].pc = "idle"
  /\ \A q \in Reqs : q < r => req[q].pc # "idle"
  /\ req' = [req EXCEPT ![r] = [pc |-> "retrieve", body |-> b, oid |-> NoId, k |-> 0]]
  /\ resp' = [resp EXCEPT ![r] = NoResp]
  /\ Quiet
  /\ UNCHANGED <<now, orders, orderItems>>
  /\ IntentUnchanged
  /\ OpsUnchanged

\* paymentIntents.retrieve rejects: the outer catch answers 500
PS_RetrieveThrows(r) ==
  /\ req[r].pc = "retrieve"
  /\ Finish(r, ErrorResponse(500, req[r].body, "error"))
  /\ out' = Logged("GatewayError", 0)
  /\ UNCHANGED <<now, orders, orderItems>>
  /\ IntentUnchanged
  /\ OpsUnchanged

\* paymentIntents.retrieve resolves
PS_Retrieved(r) ==
  LET b == req[r].body
      status == GatewayStatus(b.paymentIntentId)
  IN /\ req[r].pc = "retrieve"
     /\ IF ~IsVerified(status)
        THEN Finish(r, ErrorResponse(400, b, status)) /\ Quiet
        ELSE IF ~b.customer.defined
        THEN \* customer.name throws outside the inner try
             /\ Finish(r, ErrorResponse(500, b, status))
             /\ out' = Logged("TypeError", 0)
        ELSE IF ~ValidOrderInput(CreateOrderInput(b))
        THEN /\ Finish(r, FallbackResponse(b, now))
             /\ out' = Logged("ValidationError", 0)
        ELSE /\ req' = [req EXCEPT ![r].pc = "begin"]
             /\ UNCHANGED resp
             /\ Quiet
     /\ UNCHANGED <<now, orders, orderItems>>
     /\ IntentUnchanged
     /\ OpsUnchanged

\* createOrder: generate the order id, open the transaction, insert the order row
CO_InsertOrder(r) ==
  /\ req[r].pc = "begin"
  /\ \E rnd \in 0..MaxRand :
       LET b == req[r].body
           row == OrderRow(CreateOrderInput(b), GenOrderId(now, rnd), now, r)
       IN \* an insert waits for an uncommitted row holding the same key
          /\ ~UniqueConflict(row, orders \ Committed(orders))
          /\ IF UniqueConflict(row, Committed(orders))
             THEN /\ Finish(r, FallbackResponse(b, now))
                  /\ out' = Logged("UniqueViolation", 0)
                  /\ UNCHANGED orders
             ELSE /\ orders' = orders \cup {row}
                  /\ req' = [req EXCEPT ![r].pc = "items", ![r].oid = row.orderId]
                  /\ UNCHANGED resp
                  /\ Quiet
  /\ UNCHANGED <<now, orderItems>>
  /\ IntentUnchanged
  /\ OpsUnchanged

\* createOrder: insert the next item row
CO_InsertItem(r) ==
  LET list == req[r].body.items.list
      k == req[r].k + 1
  IN /\ req[r].pc = "items"
     /\ k <= Len(list)
     /\ orderItems' = orderItems \cup {ItemRow(req[r].oid, list[k], k, r)}
     /\ req' = [req EXCEPT ![r].k = k]
     /\ Quiet
     /\ UNCHANGED <<now, orders, resp>>
     /\ IntentUnchanged
     /\ OpsUnchanged

\* createOrder: commit, return; the handler answers with the durable order
CO_Commit(r) ==
  /\ req[r].pc = "items"
  /\ req[r].k = Len(req[r].body.items.list)
  /\ orders' = CommitRows(orders, r)
  /\ orderItems' = CommitRows(orderItems, r)
  /\ \E row \in orders : row.tx = r /\ Finish(r, DurableResponse(req[r].body, row))
  /\ Quiet
  /\ UNCHANGED now
  /\ IntentUnchanged
  /\ OpsUnchanged

\* the store fails during createOrder: roll back, throw; the handler's catch answers
CO_StoreFails(r) ==
  /\ req[r].pc \in {"begin", "items"}
  /\ orders' = Rollback(orders, r)
  /\ orderItems' = Rollback(orderItems, r)
  /\ Finish(r, FallbackResponse(req[r].body, now))
  /\ out' = Logged("PersistenceError",
                   Cardinality({x \in orders : x.tx = r})
                   + Cardinality({x \in orderItems : x.tx = r}))
  /\ UNCHANGED now
  /\ IntentUnchanged
  /\ OpsUnchanged

Tick ==
  /\ now < NowStart + MaxTicks
  /\ now' = now + 1
  /\ UNCHANGED <<orders, orderItems, req, resp>>
  /\ Quiet
  /\ IntentUnchanged
  /\ OpsUnchanged

----------------------------------------------------------------------------
(* Admin and lookup handlers; OrderService reads and the status update *)

Reqs1 == {1}

\* :orderId values a client may send: ids of stored orders and one that is not
UnknownId == [fmt |-> "store", stamp |-> 0, rnd |-> MaxRand + 1]
OrderIdParams == {x.orderId : x \in Committed(orders)} \cup {UnknownId}

StatusInputs == ValidStatuses \cup {"bogus"}

\* validStatuses.includes(status)
IsValidStatus_Any(status) == TRUE

IsValidStatus_NoCancel(status) == status \in ValidStatuses \ {"cancelled"}

IsValidStatus(status) == status \in ValidStatuses

\* OrderService.updateOrderStatus: its own check of the new status
ServiceStatusOk_Any(status) == TRUE

ServiceStatusOk(status) == status \in ValidStatuses

\* UPDATE orders SET order_status = $2 WHERE order_id = $1 RETURNING *
UpdatedRows(rows, orderId, status) ==
  {IF x.tx = 0 /\ x.orderId = orderId THEN [x EXCEPT !.status = status] ELSE x :
     x \in rows}

\* OrderService.updateOrderStatus(orderId, newStatus), called with the store up:
\* the rows afterwards and what it returns or throws
UpdateOrderStatus(rows, orderId, status) ==
  IF ~ServiceStatusOk(status)
  THEN [rows |-> rows, err |-> "ValidationError", found |-> FALSE]
  ELSE [rows |-> UpdatedRows(rows, orderId, status), err |-> "",
        found |-> \E x \in Committed(rows) : x.orderId = orderId]

\* PUT /api/admin/orders/:orderId/status with the store up; only the 200
\* body names the order
PutStatus(orderId, status) ==
  /\ IF ~IsValidStatus(status)
     THEN /\ out' = [NoOut EXCEPT !.op = "status", !.code = 400]
          /\ UNCHANGED orders
     ELSE LET res == UpdateOrderStatus(orders, orderId, status)
          IN /\ orders' = res.rows
             /\ out' = IF res.err # ""
                       THEN [NoOut EXCEPT !.op = "status", !.code = 500]
                       ELSE IF ~res.found
                       THEN [NoOut EXCEPT !.op = "status", !.code = 404]
                       ELSE [NoOut EXCEPT !.op = "status", !.code = 200,
                                          !.orderId = orderId,
                                          !.status = status]
  /\ UNCHANGED <<now, orderItems, req, resp>>
  /\ IntentUnchanged
  /\ OpsUnchanged

\* a lookup, listing or valid status update while the store is down:
\* the service throws and the handler's catch answers 500
StoreDown(op) ==
  /\ out' = [NoOut EXCEPT !.op = op, !.code = 500]
  /\ PayUnchanged
  /\ IntentUnchanged
  /\ OpsUnchanged

\* OrderService.updateOrderStatus called directly: throws, returns null or
\* returns the updated record
SvcUpdateOrderStatus(orderId, status) ==
  LET res == UpdateOrderStatus(orders, orderId, status)
  IN /\ orders' = res.rows
     /\ out' = IF res.err # ""
               THEN [NoOut EXCEPT !.op = "svc-status", !.err = res.err]
               ELSE IF ~res.found
               THEN [NoOut EXCEPT !.op = "svc-status", !.status = "null"]
               ELSE [NoOut EXCEPT !.op = "svc-status", !.orderId = orderId,
                                  !.status = status]
     /\ UNCHANGED <<now, orderItems, req, resp>>
     /\ IntentUnchanged
     /\ OpsUnchanged

\* GET /api/orders/:orderId with the store up
GetOrder(orderId) ==
  /\ IF \E x \in Committed(orders) : x.orderId = orderId
     THEN \E x \in Committed(orders) :
            /\ x.orderId = orderId
            /\ out' = [NoOut EXCEPT !.op = "get", !.code = 200,
                                    !.orderId = orderId, !.status = x.status]
     ELSE out' = [NoOut EXCEPT !.op = "get", !.code = 404]
  /\ PayUnchanged
  /\ IntentUnchanged
  /\ OpsUnchanged

\* parseInt on a query-string value: leading digits, NaN when there are none
parseInt(x) ==
  IF x.t = "str" /\ DigitRun(x.s, 1) > 0
  THEN Num(DigitsValue(x.s, 1, DigitRun(x.s, 1)) * 100)
  ELSE NaN

DefaultLimit == 10

\* parseInt(req.query.limit) || 10
QueryLimit(q) == IF Falsy(parseInt(q)) THEN DefaultLimit ELSE parseInt(q).v \div 100

LimitInputs == {Undef, Str(<<"1">>)}

\* OrderService.getRecentOrders: the limit newest orders, newest first
IsRecentList(list, rows, limit) ==
  /\ Len(list) = (IF Cardinality(rows) < limit THEN Cardinality(rows) ELSE limit)
  /\ \A i \in 1..Len(list) : list[i] \in rows
  /\ \A i, k \in 1..Len(list) : i < k => list[i] # list[k]
  /\ \A i, k \in 1..Len(list) : i < k => list[i].createdAt >= list[k].createdAt
  /\ \A i \in 1..Len(list) :
       \A x \in rows : (\A k \in 1..Len(list) : list[k] # x)
                         => list[i].createdAt >= x.createdAt

\* GET /api/admin/orders with the store up
ListOrders(q) ==
  /\ LET rows == Committed(orders)
         n == IF Cardinality(rows) < QueryLimit(q)
              THEN Cardinality(rows) ELSE QueryLimit(q)
     IN \E list \in [1..n -> rows] :
          /\ IsRecentList(list, rows, QueryLimit(q))
          /\ out' = [NoOut EXCEPT
                       !.op = "list", !.code = 200,
                       !.list = [i \in 1..n |->
                                   [orderId |-> list[i].orderId,
                                    status |-> list[i].status]]]
  /\ PayUnchanged
  /\ IntentUnchanged
  /\ OpsUnchanged

\* GET /api/health
Health ==
  /\ \E stripeOk, dbOk \in BOOLEAN :
       LET status == IF ~dbOk THEN "ERROR" ELSE IF ~stripeOk THEN "WARNING" ELSE "OK"
       IN out' = [NoOut EXCEPT !.op = "health",
                               !.code = IF status = "ERROR" THEN 500 ELSE 200,
                               !.status = status]
  /\ PayUnchanged
  /\ IntentUnchanged
  /\ OpsUnchanged

----------------------------------------------------------------------------
(* POST /api/create-payment-intent *)

IntentPrices ==
  {Undef, Num(1250), Num(0), Num(0 - 500),
   Str(<<"$", "1", "2", ".", "5", "0">>), Str(<<"1", "2", ".", "5", "0">>),
   Str(<<"$", "0">>), Str(<<"a", "b", "c">>), Str(<<>>), Str(<<"5", "x">>)}

IntentItem(price) == [name |-> "lipstick", quantity |-> 1, price |-> price]

RECURSIVE ItemLists(_)
ItemLists(n) ==
  IF n = 0 THEN {<<>>}
  ELSE ItemLists(n - 1)
         \cup {Append(l, IntentItem(p)) :
                 l \in {x \in ItemLists(n - 1) : Len(x) = n - 1}, p \in IntentPrices}

\* every item list in a complete body, and every way of lacking a field
IntentBodies ==
  {[amount |-> Num(125049), items |-> ItemsOf(l), customer |-> Customer] :
     l \in ItemLists(MaxIntentItems)}
  \cup [amount : {Undef, Num(0), Num(125049)},
        items : {NoItems, ItemsOf(<<IntentItem(Num(1250))>>),
                 ItemsOf(<<IntentItem(Str(<<"$", "0">>))>>)},
        customer : {Customer, NoCustomer}]

NoIntentBody == [amount |-> Undef, items |-> NoItems, customer |-> NoCustomer]
NoCpi == [pc |-> "idle", body |-> NoIntentBody]
NoCpiResp == [code |-> 0, gw |-> "none"]

\* the numeric price of an item: "$60" and 60 are both accepted
NumericPrice(price) ==
  IF price.t = "str" THEN parseFloat(Str(ReplaceFirst(price.s, "$")))
  ELSE parseFloat(price)

ItemPriceOk_ZeroAllowed(price) ==
  /\ ~Falsy(price)
  /\ ~(isNaN(NumericPrice(price)) \/ NumericPrice(price).v < 0)

\* the two checks of the validation loop on one item
ItemPriceOk(price) ==
  /\ ~Falsy(price)
  /\ ~(isNaN(NumericPrice(price)) \/ NumericPrice(price).v <= 0)

\* the handler's validation up to the gateway call
IntentBodyOk(b) ==
  /\ ~(Falsy(b.amount) \/ ~b.items.defined \/ ~b.customer.defined)
  /\ \A i \in 1..Len(b.items.list) : ItemPriceOk(b.items.list[i].price)

\* the request arrives and is validated; a valid one calls paymentIntents.create
CPI_Receive(b) ==
  /\ cpi.pc # "create"
  /\ IF IntentBodyOk(b)
     THEN /\ gwCalls < MaxCalls
          /\ gwCalls' = gwCalls + 1
          /\ cpi' = [pc |-> "create", body |-> b]
          /\ cpiResp' = NoCpiResp
     ELSE /\ cpi' = [pc |-> "done", body |-> b]
          /\ cpiResp' = [code |-> 400, gw |-> "none"]
          /\ UNCHANGED gwCalls
  /\ PayUnchanged
  /\ Quiet
  /\ OpsUnchanged

\* paymentIntents.create resolves
CPI_Created ==
  /\ cpi.pc = "create"
  /\ cpi' = [cpi EXCEPT !.pc = "done"]
  /\ cpiResp' = [code |-> 200, gw |-> "created"]
  /\ UNCHANGED gwCalls
  /\ PayUnchanged
  /\ Quiet
  /\ OpsUnchanged

\* paymentIntents.create rejects
CPI_GatewayFails ==
  /\ cpi.pc = "create"
  /\ cpi' = [cpi EXCEPT !.pc = "done"]
  /\ cpiResp' = [code |-> 500, gw |-> "error"]
  /\ UNCHANGED gwCalls
  /\ PayUnchanged
  /\ Quiet
  /\ OpsUnchanged

----------------------------------------------------------------------------
(* GET /api/health, one await at a time *)

HReqs == {1, 2}

NoHealth ==
  [pc |-> "idle", status |-> "", timestamp |-> 0, stripe |-> "",
   database |-> "", code |-> 0]

\* the health object as the handler builds it before the first probe
NewHealth(t) ==
  [pc |-> "stripe", status |-> "OK", timestamp |-> t, stripe |-> "unknown",
   database |-> "unknown", code |-> 0]

StatusCode_AllOk(status) == 200

\* health.status === 'OK' ? 200 : health.status === 'WARNING' ? 200 : 500
StatusCode(status) ==
  IF status = "OK" THEN 200 ELSE IF status = "WARNING" THEN 200 ELSE 500

HealthUnchanged ==
  /\ PayUnchanged
  /\ IntentUnchanged
  /\ Quiet
  /\ UNCHANGED <<subs, nlOut, proc>>

\* the request arrives; the handler calls paymentIntents.list and awaits
HealthStart(h) ==
  /\ health[h].pc = "idle"
  /\ health' = [health EXCEPT ![h] = NewHealth(now)]
  /\ HealthUnchanged

\* the gateway probe settles: resolved, or rejected into the first catch;
\* either way the handler goes on to pool.query('SELECT 1') and awaits
HealthStripeProbe(h) ==
  /\ health[h].pc = "stripe"
  /\ \E ok \in BOOLEAN :
       health' = [health EXCEPT
                    ![h] = IF ok
                           THEN [@ EXCEPT !.stripe = "connected", !.pc = "db"]
                           ELSE [@ EXCEPT !.stripe = "error",
                                          !.status = "WARNING", !.pc = "db"]]
  /\ HealthUnchanged

\* the store probe settles: resolved, or rejected into the second catch;
\* the handler then sends the health object with its status code
HealthDbProbe(h) ==
  /\ health[h].pc = "db"
  /\ \E ok \in BOOLEAN :
       LET probed == IF ok
                     THEN [health[h] EXCEPT !.database = "connected"]
                     ELSE [health[h] EXCEPT !.database = "error",
                                            !.status = "ERROR"]
       IN health' = [health EXCEPT
                       ![h] = [probed EXCEPT !.code = StatusCode(probed.status),
                                             !.pc = "idle"]]
  /\ HealthUnchanged

----------------------------------------------------------------------------
(* NewsletterService over table newsletter_subscriptions *)

Emails == {"ana@kk.test", "bea@kk.test"}

\* an email parameter that is undefined reaches the store as NULL
NullEmail == "NULL"
EmailInputs == Emails \cup {NullEmail}

NoRow == [id |-> 0, email |-> "", subscribed_at |-> 0, is_active |-> FALSE]

\* the empty table; id SERIAL starts its sequence at 1
NoSubs == [rows |-> {}, seq |-> 1]

NoNlOut ==
  [op |-> "none", email |-> "", success |-> FALSE, subscription |-> NoRow,
   err |-> ""]

NotFound == "Email not found in subscription list"

\* the row INSERT builds from the column defaults
NewSubscription(email, id, t) ==
  [id |-> id, email |-> email, subscribed_at |-> t, is_active |-> TRUE]

Upsert_Insert(rows, email, id, t) == rows \cup {NewSubscription(email, id, t)}

\* INSERT ... ON CONFLICT (email) DO UPDATE SET is_active = true,
\* subscribed_at = CURRENT_TIMESTAMP
Upsert(rows, email, id, t) ==
  IF \E x \in rows : x.email = email
  THEN {IF x.email = email
        THEN [x EXCEPT !.is_active = TRUE, !.subscribed_at = t]
        ELSE x : x \in rows}
  ELSE rows \cup {NewSubscription(email, id, t)}

Deactivated_Deletes(rows, email) == {x \in rows : x.email # email}

\* UPDATE ... SET is_active = false WHERE email = $1
Deactivated(rows, email) ==
  {IF x.email = email THEN [x EXCEPT !.is_active = FALSE] ELSE x : x \in rows}

NewsletterUnchanged ==
  /\ PayUnchanged
  /\ IntentUnchanged
  /\ Quiet
  /\ UNCHANGED <<health, proc>>

\* NewsletterService.subscribe(email) with the store up.  The statement
\* draws an id from the sequence before the constraints are checked; a NULL
\* email fails the NOT NULL constraint and the error is rethrown.
Subscribe(email) ==
  /\ subs.seq <= MaxSerial
  /\ IF email = NullEmail
     THEN /\ subs' = [subs EXCEPT !.seq = @ + 1]
          /\ nlOut' = [NoNlOut EXCEPT !.op = "subscribe", !.email = email,
                                      !.err = "NotNullViolation"]
     ELSE LET rows == Upsert(subs.rows, email, subs.seq, now)
          IN /\ subs' = [rows |-> rows, seq |-> subs.seq + 1]
             /\ \E x \in rows :
                  /\ x.email = email
                  /\ nlOut' = [NoNlOut EXCEPT !.op = "subscribe",
                                              !.email = email,
                                              !.success = TRUE,
                                              !.subscription = x]
  /\ NewsletterUnchanged

\* NewsletterService.unsubscribe(email) with the store up; WHERE email = NULL
\* selects no row
Unsubscribe(email) ==
  /\ IF \E x \in subs.rows : x.email = email
     THEN /\ subs' = [subs EXCEPT !.rows = Deactivated(subs.rows, email)]
          /\ nlOut' = [NoNlOut EXCEPT !.op = "unsubscribe", !.email = email,
                                      !.success = TRUE]
     ELSE /\ UNCHANGED subs
          /\ nlOut' = [NoNlOut EXCEPT !.op = "unsubscribe", !.email = email,
                                      !.err = NotFound]
  /\ NewsletterUnchanged

\* either call while the store is down: pool.query rejects, the catch logs
\* and rethrows
NewsletterStoreDown(op, email) ==
  /\ nlOut' = [NoNlOut EXCEPT !.op = op, !.email = email,
                              !.err = "PersistenceError"]
  /\ UNCHANGED subs
  /\ NewsletterUnchanged

----------------------------------------------------------------------------
(* shutdown(signal) and the signal handlers *)

Signals == {"SIGTERM", "SIGINT"}

\* the process after app.listen and process.on: accepting, pool open
Started == [listening |-> TRUE, pool |-> "open", exit |-> "running", sd |-> <<>>]

Running == proc.exit = "running"

\* a payment-success request has been accepted and not yet answered
InFlight == \E r \in Reqs : req[r].pc # "idle"

Drained_Any == TRUE

\* server.close(resolve): the callback runs on the server's 'close' event,
\* which is emitted once the socket is closed and no connection is left
Drained == ~InFlight

ShutdownUnchanged ==
  /\ PayUnchanged
  /\ IntentUnchanged
  /\ Quiet
  /\ UNCHANGED <<health, subs, nlOut>>

\* SIGTERM or SIGINT: the handler calls shutdown(signal), which runs up to
\* its first await: server.close stops the listening socket (a server that
\* is already closing only gets one more 'close' listener)
Signal(sig) ==
  /\ Running
  /\ Len(proc.sd) < MaxSignals
  /\ proc' = [proc EXCEPT !.listening = FALSE,
                          !.sd = Append(@, [signal |-> sig, pc |-> "closing"])]
  /\ ShutdownUnchanged

\* the server's 'close' event: every shutdown call waiting on it resumes
ServerClosed ==
  /\ Running
  /\ ~proc.listening
  /\ Drained
  /\ \E i \in 1..Len(proc.sd) : proc.sd[i].pc = "closing"
  /\ proc' = [proc EXCEPT
                !.sd = [i \in 1..Len(proc.sd) |->
                          IF proc.sd[i].pc = "closing"
                          THEN [proc.sd[i] EXCEPT !.pc = "closed"]
                          ELSE proc.sd[i]]]
  /\ ShutdownUnchanged

\* a resumed shutdown call reaches await pool.end().  On an open pool the
\* release starts.  On a pool that another call is already releasing, end()
\* either joins the release, or rejects: the rejection of shutdown is handled
\* by nobody, which ends the process with code 1 or is only reported,
\* depending on the runtime.
PoolEnd(i) ==
  /\ Running
  /\ i \in 1..Len(proc.sd)
  /\ proc.sd[i].pc = "closed"
  /\ IF proc.pool = "open"
     THEN proc' = [proc EXCEPT !.pool = "ending", !.sd[i].pc = "ending"]
     ELSE \/ proc' = [proc EXCEPT !.sd[i].pc = "ending"]
          \/ proc' = [proc EXCEPT !.sd[i].pc = "failed"]
          \/ proc' = [proc EXCEPT !.sd[i].pc = "failed", !.exit = "exit1"]
  /\ ShutdownUnchanged

\* the pool has closed its connections: pool.end() resolves
PoolEnded ==
  /\ Running
  /\ proc.pool = "ending"
  /\ proc' = [proc EXCEPT !.pool = "ended"]
  /\ ShutdownUnchanged

\* after await pool.end(): process.exit(0)
Exit(i) ==
  /\ Running
  /\ i \in 1..Len(proc.sd)
  /\ proc.sd[i].pc = "ending"
  /\ proc.pool = "ended"
  /\ proc' = [proc EXCEPT !.sd[i].pc = "done", !.exit = "exit0"]
  /\ ShutdownUnchanged

\* a connection is accepted only on a listening socket
Accept(r, b) == Running /\ proc.listening /\ PS_Receive(r, b)

\* a handler runs only while the process does
Serve(A) == Running /\ A

----------------------------------------------------------------------------

Init ==
  /\ now = NowStart
  /\ orders = {}
  /\ orderItems = {}
  /\ req = [r \in Reqs |-> IdleReq]
  /\ resp = [r \in Reqs |-> NoResp]
  /\ out = NoOut
  /\ cpi = NoCpi
  /\ cpiResp = NoCpiResp
  /\ gwCalls = 0
  /\ health = [h \in HReqs |-> NoHealth]
  /\ subs = NoSubs
  /\ nlOut = NoNlOut
  /\ proc = Started

Next ==
  \/ \E r \in Reqs, b \in PayBodies : PS_Receive(r, b)
  \/ \E r \in Reqs : PS_RetrieveThrows(r)
  \/ \E r \in Reqs : PS_Retrieved(r)
  \/ \E r \in Reqs : CO_InsertOrder(r)
  \/ \E r \in Reqs : CO_InsertItem(r)
  \/ \E r \in Reqs : CO_Commit(r)
  \/ \E r \in Reqs : CO_StoreFails(r)
  \/ Tick

Spec == Init /\ [][Next]_vars

NextOrders ==
  \/ \E b \in OrderBodies : PS_Receive(1, b)
  \/ \E r \in Reqs1 : PS_RetrieveThrows(r)
  \/ \E r \in Reqs1 : PS_Retrieved(r)
  \/ \E r \in Reqs1 : CO_InsertOrder(r)
  \/ \E r \in Reqs1 : CO_InsertItem(r)
  \/ \E r \in Reqs1 : CO_Commit(r)
  \/ \E r \in Reqs1 : CO_StoreFails(r)
  \/ Tick
  \/ \E id \in OrderIdParams, st \in StatusInputs : PutStatus(id, st)
  \/ \E id \in OrderIdParams, st \in StatusInputs : SvcUpdateOrderStatus(id, st)
  \/ \E id \in OrderIdParams : GetOrder(id)
  \/ \E q \in LimitInputs : ListOrders(q)
  \/ \E op \in {"status", "get", "list"} : StoreDown(op)
  \/ Health

SpecOrders == Init /\ [][NextOrders]_vars

NextIntent ==
  \/ \E b \in IntentBodies : CPI_Receive(b)
  \/ CPI_Created
  \/ CPI_GatewayFails

SpecIntent == Init /\ [][NextIntent]_vars

NextHealth ==
  \/ \E h \in HReqs : HealthStart(h)
  \/ \E h \in HReqs : HealthStripeProbe(h)
  \/ \E h \in HReqs : HealthDbProbe(h)
  \/ Tick

SpecHealth == Init /\ [][NextHealth]_vars

NextNewsletter ==
  \/ \E e \in EmailInputs : Subscribe(e)
  \/ \E e \in EmailInputs : Unsubscribe(e)
  \/ \E op \in {"subscribe", "unsubscribe"}, e \in EmailInputs :
       NewsletterStoreDown(op, e)
  \/ Tick

SpecNewsletter == Init /\ [][NextNewsletter]_vars

NextShutdown ==
  \/ \E b \in OrderBodies : Accept(1, b)
  \/ \E r \in Reqs1 : Serve(PS_RetrieveThrows(r))
  \/ \E r \in Reqs1 : Serve(PS_Retrieved(r))
  \/ \E r \in Reqs1 : Serve(CO_InsertOrder(r))
  \/ \E r \in Reqs1 : Serve(CO_InsertItem(r))
  \/ \E r \in Reqs1 : Serve(CO_Commit(r))
  \/ \E r \in Reqs1 : Serve(CO_StoreFails(r))
  \/ \E sig \in Signals : Signal(sig)
  \/ ServerClosed
  \/ \E i \in 1..MaxSignals : PoolEnd(i)
  \/ PoolEnded
  \/ \E i \in 1..MaxSignals : Exit(i)

SpecShutdown == Init /\ [][NextShutdown]_vars

\* confirmations that createOrder accepts
StatusBodies ==
  {b \in OrderBodies : b.customer.defined /\ ValidItems(b.items)}

NextStatus ==
  \/ \E b \in StatusBodies : PS_Receive(1, b)
  \/ \E r \in Reqs1 : PS_RetrieveThrows(r)
  \/ \E r \in Reqs1 : PS_Retrieved(r)
  \/ \E r \in Reqs1 : CO_InsertOrder(r)
  \/ \E r \in Reqs1 : CO_InsertItem(r)
  \/ \E r \in Reqs1 : CO_Commit(r)
  \/ \E r \in Reqs1 : CO_StoreFails(r)
  \/ Tick
  \/ \E id \in OrderIdParams, st \in StatusInputs : PutStatus(id, st)
  \/ \E id \in OrderIdParams, st \in StatusInputs : SvcUpdateOrderStatus(id, st)
  \/ \E id \in OrderIdParams : GetOrder(id)

SpecStatus == Init /\ [][NextStatus]_vars

----------------------------------------------------------------------------
(* Claims on POST /api/payment-success *)

Answered(r) == resp[r].code # 0

\* C1 (as stated): once the gateway has reported "succeeded", the response is
\* 200 with success: true for any request body.
C1_SucceededAlways200 ==
  \A r \in Reqs :
    Answered(r) /\ resp[r].gw = "succeeded" => resp[r].code = 200 /\ resp[r].success

C2_State ==
  /\ \A r \in Reqs :
       req[r].pc \in {"begin", "items"}
         => GatewayStatus(req[r].body.paymentIntentId) = "succeeded"
  /\ \A row \in orders : GatewayStatus(row.stripePaymentIntentId) = "succeeded"
  /\ \A r \in Reqs :
       /\ resp[r].gw \notin {"none", "succeeded", "error"} => resp[r].code = 400
       /\ resp[r].gw = "error" => resp[r].code = 500

C2_Step ==
  \A r \in Reqs :
    resp'[r] # resp[r] /\ resp'[r].code \in {400, 500}
      => orders' = orders /\ orderItems' = orderItems

\* C2: createOrder runs and rows are written only for a payment the gateway
\* reported as succeeded; any other status is answered 400 and a gateway
\* failure 500, and neither writes to the store.
C2_OrderOnlyAfterSucceeded == [](C2_State) /\ [][C2_Step]_vars

C2_Witness ==
  /\ \E r \in Reqs : resp[r].code = 400 /\ resp[r].gw = "requires_payment_method"
  /\ \E r \in Reqs : resp[r].code = 500 /\ resp[r].gw = "error"
  /\ Committed(orders) # {}

C3_Step ==
  \A r \in Reqs :
    /\ resp'[r] # resp[r]
    /\ resp'[r].gw = "succeeded"
    /\ req[r].body.customer.defined
    => /\ resp'[r].code = 200 /\ resp'[r].success
       /\ IF Committed(orders') = Committed(orders)
          THEN /\ resp'[r].warning
               /\ resp'[r].orderId.fmt = "KK-dddddd"
               /\ resp'[r].orderId.stamp = now - (now \div 1000000) * 1000000
               /\ \A row \in orders' : row.orderId # resp'[r].orderId
          ELSE /\ ~resp'[r].warning
               /\ \E row \in Committed(orders') \ Committed(orders) :
                    /\ row.orderId = resp'[r].orderId
                    /\ row.stripePaymentIntentId = resp'[r].paymentIntentId

\* C3: a response after createOrder was called carries success: true; it has
\* the warning and a KK- id made of the last six digits of the current time,
\* which is no store id, exactly when this request committed no order; and
\* otherwise it has no warning and the id of the order row just committed.
C3_WarningIffNotRecorded == [][C3_Step]_vars

C3_Witness ==
  \E r1, r2 \in Reqs :
    /\ resp[r1].success /\ resp[r1].warning
    /\ resp[r2].success /\ ~resp[r2].warning
    /\ out.err = "PersistenceError"

\* C4: the store never holds two orders with the same stripePaymentIntentId.
C4_OneOrderPerPayment ==
  \A x, y \in Committed(orders) :
    x.stripePaymentIntentId = y.stripePaymentIntentId => x = y

C4_Witness ==
  \E r1, r2 \in Reqs :
    /\ resp[r1].success /\ ~resp[r1].warning
    /\ resp[r2].warning /\ out.err = "UniqueViolation"
    /\ resp[r2].paymentIntentId = resp[r1].paymentIntentId
    /\ Cardinality({x \in Committed(orders) :
                      x.stripePaymentIntentId = resp[r1].paymentIntentId}) = 1

\* C5 (as stated): every stored totalAmount is the amount the gateway
\* confirmed for the order's payment intent (both sides in cents: the stored
\* total 12.50 is 1250, the gateway's amount is an integer number of cents).
C5_TotalIsGatewayAmount ==
  \A row \in Committed(orders) :
    row.totalAmount = GatewayAmount(row.stripePaymentIntentId)

RECURSIVE SumRows(_)
SumRows(rows) ==
  IF rows = {} THEN 0
  ELSE LET x == CHOOSE y \in rows : TRUE
       IN x.price * x.quantity + SumRows(rows \ {x})

C6_State ==
  /\ \A o \in Committed(orders) :
       SumRows({i \in Committed(orderItems) : i.orderId = o.orderId}) = o.subtotal
  /\ \A i \in Committed(orderItems) :
       \E o \in Committed(orders) : o.orderId = i.orderId
  /\ \A r \in Reqs :
       req[r].pc # "items"
         => /\ \A x \in orders : x.tx # r
            /\ \A x \in orderItems : x.tx # r

C6_Step ==
  \A r \in Reqs :
    resp'[r] # resp[r] /\ resp'[r].warning
      => /\ Committed(orders') = Committed(orders)
         /\ Committed(orderItems') = Committed(orderItems)

\* C6: visible rows are whole orders (an order row's items add up to its
\* subtotal, every item row has its order row), a finished createOrder leaves
\* no uncommitted row, and a failed createOrder changes no visible row.
C6_CreateOrderAtomic == [](C6_State) /\ [][C6_Step]_vars

C6_Witness ==
  \E r \in Reqs :
    /\ resp[r].warning
    /\ out.err = "PersistenceError"
    /\ out.undone >= 2
    /\ \A x \in orders : x.tx # r
    /\ \A x \in orderItems : x.tx # r

\* C7 (as stated): success responses for distinct payment intents never
\* carry the same orderId.
C7_OrderIdsUnique ==
  \A r1, r2 \in Reqs :
    /\ r1 # r2
    /\ resp[r1].success /\ resp[r2].success
    /\ resp[r1].paymentIntentId # resp[r2].paymentIntentId
    => resp[r1].orderId # resp[r2].orderId

----------------------------------------------------------------------------
(* Claims on POST /api/create-payment-intent *)

\* the prices of IntentPrices that are positive numbers, listed by hand
C8_PositivePrices ==
  {Num(1250), Str(<<"$", "1", "2", ".", "5", "0">>),
   Str(<<"1", "2", ".", "5", "0">>), Str(<<"5", "x">>)}

C8_Complete(b) ==
  /\ b.amount.t = "num" /\ b.amount.v # 0
  /\ b.items.defined
  /\ b.customer.defined

C8_AllPositive(b) ==
  \A i \in 1..Len(b.items.list) : b.items.list[i].price \in C8_PositivePrices

C8_State ==
  /\ cpi.pc = "create" \/ cpiResp.gw # "none"
       => C8_Complete(cpi.body) /\ C8_AllPositive(cpi.body)
  /\ cpi.pc = "done" /\ ~(C8_Complete(cpi.body) /\ C8_AllPositive(cpi.body))
       => cpiResp.code = 400 /\ cpiResp.gw = "none"
  /\ cpiResp.gw = "error" => cpiResp.code = 500

C8_Step == cpiResp'.code = 400 /\ cpi' # cpi => gwCalls' = gwCalls

\* C8: a create-payment-intent request that lacks amount, items or customer,
\* or has an item whose price is missing, not a number or not positive, is
\* answered 400 without a gateway call; the gateway is called only for
\* complete requests whose items all have a positive price, and its failure
\* is answered 500.
C8_ValidatedBeforeGateway == [](C8_State) /\ [][C8_Step]_vars

C8_Witness ==
  /\ gwCalls > 0
  /\ cpi.pc = "done"
  /\ cpiResp.code = 400
  /\ C8_Complete(cpi.body)
  /\ Len(cpi.body.items.list) = MaxIntentItems
  /\ cpi.body.items.list[1].price = Str(<<"$", "1", "2", ".", "5", "0">>)
  /\ cpi.body.items.list[MaxIntentItems].price = Str(<<"$", "0">>)

----------------------------------------------------------------------------
(* Claims on order status *)

C9_FourStatuses == {"processing", "shipped", "delivered", "cancelled"}

C9_Step ==
  \A id \in OrderIdParams, st \in StatusInputs \ C9_FourStatuses :
    /\ PutStatus(id, st) => out'.code = 400 /\ orders' = orders /\ orderItems' = orderItems
    /\ SvcUpdateOrderStatus(id, st)
         => out'.err = "ValidationError" /\ orders' = orders /\ orderItems' = orderItems

\* C9: a status update with a value outside the four statuses is answered
\* 400 by the endpoint and ValidationError by updateOrderStatus, and leaves
\* both tables as they were.
C9_InvalidStatusRejected == [][C9_Step]_vars

C9_Witness ==
  /\ out.op = "status"
  /\ out.code = 400
  /\ \E x \in Committed(orders) : x.status = "shipped"

C10_State == \A x \in orders : x.status \in C9_FourStatuses

C10_Step ==
  /\ \A y \in orders' :
       (\A x \in orders : x.orderId # y.orderId) => y.status = "processing"
  /\ \A x \in orders, y \in orders' :
       x.orderId = y.orderId /\ x.status # y.status
         => /\ \E id \in OrderIdParams, st \in StatusInputs :
                 PutStatus(id, st) \/ SvcUpdateOrderStatus(id, st)
            /\ out'.op \in {"status", "svc-status"}
            /\ out'.orderId = x.orderId
            /\ out'.status = y.status

\* C10: every stored order's status is one of the four statuses, a new order
\* row has status processing, and an order's status changes only in a step of
\* the status update, for that order, to the requested status.
C10_StatusOnlyByUpdate == [](C10_State) /\ [][C10_Step]_vars

C10_Witness ==
  /\ \E x, y \in Committed(orders) : x.status = "delivered" /\ y.status = "processing"
  /\ out.op \in {"get", "list", "health"}
  /\ resp[1].success

----------------------------------------------------------------------------
(* Claims on GET /api/health *)

C11_Sent(h) == health[h].code # 0

C11_Probed(x) == x \in {"connected", "error"}

\* C11: a health response is sent only after both probes have settled, the
\* store probe being made whatever the gateway probe gave; it says OK with
\* 200 exactly when both are connected, WARNING with 200 when only the
\* gateway probe failed, and ERROR with a code outside 200..299 whenever the
\* store probe failed, the gateway probe having failed or not
C11_HealthReport ==
  \A h \in HReqs :
    LET H == health[h]
    IN /\ H.pc = "db" => C11_Probed(H.stripe) /\ H.database = "unknown"
       /\ C11_Sent(h) =>
            /\ C11_Probed(H.stripe) /\ C11_Probed(H.database)
            /\ (H.status = "OK")
                 <=> (H.stripe = "connected" /\ H.database = "connected")
            /\ H.status = "OK" => H.code = 200
            /\ (H.stripe = "error" /\ H.database = "connected")
                 => (H.status = "WARNING" /\ H.code = 200)
            /\ H.database = "error"
                 => (H.status = "ERROR" /\ H.code \notin 200..299)

\* both probes failed, and the store probe was still made and reported
C11_Witness ==
  \E h \in HReqs :
    /\ C11_Sent(h)
    /\ health[h].stripe = "error"
    /\ health[h].database = "error"
    /\ health[h].code = 500

----------------------------------------------------------------------------
(* Claims on NewsletterService *)

C12_OneRowPerEmail ==
  \A x, y \in subs.rows : x.email = y.email => x = y

C12_Step ==
  \A e \in Emails :
    Subscribe(e) =>
      /\ nlOut'.err = ""
      /\ nlOut'.success
      /\ nlOut'.subscription \in subs'.rows
      /\ nlOut'.subscription.email = e
      /\ nlOut'.subscription.is_active
      /\ nlOut'.subscription.subscribed_at = now
      /\ \A x \in subs.rows :
           x.email = e =>
             /\ Cardinality(subs'.rows) = Cardinality(subs.rows)
             /\ nlOut'.subscription.id = x.id
             /\ subs'.rows \ {nlOut'.subscription} = subs.rows \ {x}

\* C12: the table never holds two rows with one email, whatever calls were
\* made; a subscribe for an email that has a row, active or not, does not
\* fail and adds no row: it leaves that row active with subscribed_at set to
\* the current time, leaves the other rows alone, and returns that row
C12_SubscribeUpserts == [](C12_OneRowPerEmail) /\ [][C12_Step]_vars

\* a subscribe that drew a later id from the sequence returned the row the
\* email already had, with a refreshed subscribed_at
C12_Witness ==
  /\ nlOut.op = "subscribe"
  /\ nlOut.success
  /\ nlOut.subscription.id + 1 < subs.seq
  /\ nlOut.subscription.subscribed_at > NowStart
  /\ Cardinality(subs.rows) = 1

C13_Kept ==
  \A x \in subs.rows : \E y \in subs'.rows : y.id = x.id /\ y.email = x.email

C13_Step ==
  /\ C13_Kept
  /\ \A e \in EmailInputs :
       Unsubscribe(e) =>
         IF \E x \in subs.rows : x.email = e
         THEN /\ nlOut'.err = ""
              /\ nlOut'.success
              /\ \A x \in subs.rows :
                   /\ x.email = e => [x EXCEPT !.is_active = FALSE] \in subs'.rows
                   /\ x.email # e => x \in subs'.rows
              /\ Cardinality(subs'.rows) = Cardinality(subs.rows)
         ELSE /\ nlOut'.err = NotFound
              /\ ~nlOut'.success
              /\ subs' = subs

\* C13: no step removes a subscription row; an unsubscribe for an email that
\* has a row succeeds, leaves that row in place with is_active false and
\* every other row as it was; an unsubscribe for an email that has no row
\* fails with the not-found error and leaves the table as it was
C13_UnsubscribeDeactivates == [][C13_Step]_vars

\* an unsubscribe succeeded: the email's row is still there, inactive, next
\* to another email's row that is still active
C13_Witness ==
  /\ nlOut.op = "unsubscribe"
  /\ nlOut.success
  /\ \E x, y \in subs.rows :
       /\ x.email = nlOut.email
       /\ ~x.is_active
       /\ y.email # x.email
       /\ y.is_active

----------------------------------------------------------------------------
(* Claims on shutdown *)

C14_State ==
  /\ proc.sd # <<>> => ~proc.listening
  /\ (proc.pool # "open" \/ ~Running) =>
       /\ ~proc.listening
       /\ ~InFlight
       /\ \A x \in orders \cup orderItems : x.tx = 0
  /\ ~Running => proc.pool # "open"

C14_Step ==
  /\ ~proc.listening =>
       /\ ~proc'.listening
       /\ \A r \in Reqs : req[r].pc = "idle" => req'[r].pc = "idle"
  /\ proc.pool # "open" => proc'.pool # "open"
  /\ ~Running => proc'.exit = proc.exit

\* C14: from the first shutdown signal on the server accepts no request; the
\* pool is released, and the process exits, only when no request is in
\* flight and no order creation is part-way through its transaction, and
\* never the exit before the release of the pool has begun; a further signal
\* during the shutdown changes none of this
C14_DrainBeforeRelease == [](C14_State) /\ [][C14_Step]_vars

\* a second signal has arrived while an order creation is part-way through
\* its transaction: the pool is still open and the process still runs
C14_Witness ==
  /\ Len(proc.sd) >= 2
  /\ \E x \in orders : x.tx # 0
  /\ proc.pool = "open"
  /\ Running

----------------------------------------------------------------------------
(* Claims on the status transitions *)

C15_Has(rows, id) == \E x \in Committed(rows) : x.orderId = id

C15_Moved(id, to) ==
  /\ Cardinality(orders') = Cardinality(orders)
  /\ \A x \in orders :
       IF x.orderId = id
       THEN [x EXCEPT !.status = to] \in orders'
       ELSE x \in orders'

\* (each action is asked for only in the steps that leave its kind of answer)
C15_Step ==
  /\ \A id \in OrderIdParams, to \in ValidStatuses :
       /\ (out'.op = "status" /\ PutStatus(id, to)) =>
            IF C15_Has(orders, id)
            THEN /\ out'.code = 200
                 /\ out'.orderId = id
                 /\ out'.status = to
                 /\ C15_Moved(id, to)
            ELSE /\ out'.code = 404
                 /\ orders' = orders
       /\ (out'.op = "svc-status" /\ SvcUpdateOrderStatus(id, to)) =>
            IF C15_Has(orders, id)
            THEN /\ out'.err = ""
                 /\ out'.orderId = id
                 /\ out'.status = to
                 /\ C15_Moved(id, to)
            ELSE /\ out'.status = "null"
                 /\ out'.err = ""
                 /\ orders' = orders
  /\ \A id \in OrderIdParams :
       (out'.op = "get" /\ GetOrder(id)) =>
         /\ orders' = orders
         /\ IF C15_Has(orders, id)
            THEN /\ out'.code = 200
                 /\ \A x \in Committed(orders) :
                      x.orderId = id => out'.status = x.status
            ELSE out'.code = 404

\* C15: a status update to any of the four statuses on a stored order
\* succeeds whatever status the order has, and leaves that order, and only
\* it, with the new status; a lookup answers with the status the store holds,
\* so after the update with the new one; an update for an order id that is
\* not stored answers 404 (the service returns null) and a lookup for it
\* answers 404, and neither changes any row
C15_AnyTransition == [][C15_Step]_vars

\* an update of one stored order to cancelled has been answered 200: that
\* order is cancelled and another stored order is still processing
C15_Witness ==
  /\ out.op = "status"
  /\ out.code = 200
  /\ out.status = "cancelled"
  /\ \E x, y \in Committed(orders) :
       /\ x.orderId = out.orderId
       /\ x.status = "cancelled"
       /\ y.orderId # x.orderId
       /\ y.status = "processing"

============================================================================
